---- MODULE Spec2Model ----
(***************************************************************************)
(* A model of the AISWEI/Solplanet cloud client:                           *)
(*   - AisweiSolarAPI._make_request (src/aiswei_api.py): canonical query   *)
(*     string, signing string, the GET and the conversion of its outcome   *)
(*     to a returned value;                                                *)
(*   - is_api_success, extract_live_data and main                          *)
(*     (src/openhab_solplanet.py): normalization of the telemetry and the  *)
(*     object written to standard output.                                  *)
(*                                                                         *)
(* Python str values that the code splits, sorts or concatenates are       *)
(* sequences of one-character strings.  Python values read from JSON are   *)
(* tagged records [t |-> type, v |-> value].  A float is held in           *)
(* thousandths (v = 1500 is 1.5).                                          *)
(***************************************************************************)
EXTENDS Integers, Sequences, FiniteSets, TLC

\* ------------------------------------------------------------------ bounds
\* the largest number of key=value components of an endpoint's own query
MaxParams == 2
\* the largest number of device records of a 'data' list
MaxDevices == 2

\* ------------------------------------------------------- program constants
HTTP_OK == 200
EXIT_FAILURE == 1
W_PER_KW == 1000

\* ----------------------------------------------------------------- strings
\* the characters the model uses, in code point order (Python compares str
\* values by code point)
Ascii == <<"\n"," ","&","-",".","/","0","1","2","3","4","5","6","7","8","9",":",";","=","?","A","B","C","D","E","F","G","H","I","J","K","L","M","N","O","P","Q","R","S","T","U","V","W","X","Y","Z","a","b","c","d","e","f","g","h","i","j","k","l","m","n","o","p","q","r","s","t","u","v","w","x","y","z">>

Ord(c) == CHOOSE i \in 1..Len(Ascii) : Ascii[i] = c

\* a < b for two str values: the first differing character decides, a proper
\* prefix is smaller
StrLess(a, b) ==
    LET n == IF Len(a) < Len(b) THEN Len(a) ELSE Len(b)
        diff == {i \in 1..n : a[i] # b[i]}
    IN  IF diff = {} THEN Len(a) < Len(b)
        ELSE LET i == CHOOSE j \in diff : \A k \in diff : j <= k
             IN  Ord(a[i]) < Ord(b[i])

\* c in s
Contains(s, c) == \E i \in 1..Len(s) : s[i] = c

\* s.split(sep) for a one-character sep: the pieces between the occurrences
\* of sep, empty ones included
Split(s, sep) ==
    LET at == {i \in 1..Len(s) : s[i] = sep}
        \* the place of the k-th sep; 0 and Len(s) + 1 bound the str
        cut(k) == IF k = 0 THEN 0
                  ELSE IF k > Cardinality(at) THEN Len(s) + 1
                  ELSE CHOOSE i \in at : Cardinality({j \in at : j < i}) = k - 1
    IN  [k \in 1..(Cardinality(at) + 1) |-> SubSeq(s, cut(k - 1) + 1, cut(k) - 1)]

\* sep.join(parts)
RECURSIVE Join(_, _)
Join(parts, sep) ==
    IF parts = <<>> THEN <<>>
    ELSE IF Len(parts) = 1 THEN parts[1]
    ELSE parts[1] \o <<sep>> \o Join(Tail(parts), sep)

\* x put into the sorted list of str values xs, after the elements not above it
RECURSIVE Insert(_, _)
Insert(x, xs) ==
    IF xs = <<>> THEN <<x>>
    ELSE IF StrLess(x, Head(xs)) THEN <<x>> \o xs
    ELSE <<Head(xs)>> \o Insert(x, Tail(xs))

\* sorted(xs) for a list of str values
RECURSIVE Sorted(_)
Sorted(xs) ==
    IF xs = <<>> THEN <<>> ELSE Insert(xs[Len(xs)], Sorted(SubSeq(xs, 1, Len(xs) - 1)))

\* --------------------------------------------------- python values (tagged)
PyNone == [t |-> "none", v |-> 0]
PyBool(b) == [t |-> "bool", v |-> b]
PyInt(n) == [t |-> "int", v |-> n]
\* a float, in thousandths
PyFloat(m) == [t |-> "float", v |-> m]
\* an int whose magnitude is beyond the range of a float (such as 10**400)
PyBigInt == [t |-> "bigint", v |-> 0]
\* float('inf'), which json reads from 1e999 or Infinity
PyInf == [t |-> "inf", v |-> 0]
PyStr(s) == [t |-> "str", v |-> s]
PyList(xs) == [t |-> "list", v |-> xs]
PyDict(f) == [t |-> "dict", v |-> f]
EmptyDict == PyDict(<<>>)

\* d.get(key, default) of a dict
DictGet(d, key, default) == IF key \in DOMAIN d.v THEN d.v[key] ELSE default

\* -------------------------------------------------------- AisweiSolarAPI
base_url == <<"h","t","t","p","s",":","/","/","e","u","-","a","p","i","-","g","e","n","e","r","g","a","l",".","a","i","s","w","e","i","c","l","o","u","d",".","c","o","m">>
method == <<"G","E","T">>
content_type == <<"a","p","p","l","i","c","a","t","i","o","n","/","j","s","o","n",";"," ","c","h","a","r","s","e","t","=","U","T","F","-","8">>
accept == <<"a","p","p","l","i","c","a","t","i","o","n","/","j","s","o","n">>

\* the endpoint with apikey, token and isnos appended, in this order
WithAuth(ep, apikey, tok, isnos) ==
    ep \o (IF Contains(ep, "?") THEN <<"&">> ELSE <<"?">>)
       \o <<"a","p","i","k","e","y","=">> \o apikey
       \o <<"&","t","o","k","e","n","=">> \o tok
       \o <<"&","i","s","n","o","s","=">> \o isnos

\* the endpoint with the components of its query string sorted
SortParams(ep) ==
    LET s1 == Split(ep, "?")
    IN  IF Len(s1) > 1
        THEN s1[1] \o <<"?">> \o Join(Sorted(Split(s1[2], "&")), "&")
        ELSE ep

\* the value of the local variable endpoint after lines 55-63
CanonicalEndpoint(ep, apikey, tok, isnos) == SortParams(WithAuth(ep, apikey, tok, isnos))

\* the headers before the signature is added
Headers(appkey) ==
    [n \in {"User-Agent", "Content-Type", "Accept", "X-Ca-Signature-Headers", "X-Ca-Key"} |->
        CASE n = "User-Agent" -> <<"a","p","p"," ","1",".","0">>
          [] n = "Content-Type" -> content_type
          [] n = "Accept" -> accept
          [] n = "X-Ca-Signature-Headers" -> <<"X","-","C","a","-","K","e","y">>
          [] n = "X-Ca-Key" -> appkey]

\* everything of string_to_sign that precedes the endpoint
SigningPrefix(appkey) ==
    method \o <<"\n">> \o accept \o <<"\n">> \o <<"\n">> \o content_type \o <<"\n">> \o <<"\n">>
        \o <<"X","-","C","a","-","K","e","y",":">> \o appkey \o <<"\n">>

\* a mutation: only the path is signed
StringToSignPathOnly(appkey, ep) == SigningPrefix(appkey) \o Split(ep, "?")[1]

StringToSign(appkey, ep) == SigningPrefix(appkey) \o ep

\* base64(HMAC-SHA256(secret, msg)): kept symbolic, one value per (secret, msg)
Signature(secret, msg) == [alg |-> "HmacSHA256", key |-> secret, msg |-> msg]

Url(ep) == base_url \o ep

\* ------------------------------------------------- python builtin coercions
\* the result of an evaluation: a value, or the exception it raises
Return(x) == [exc |-> "", val |-> x]
Raise(e) == [exc |-> e, val |-> PyNone]

Digits == {"0","1","2","3","4","5","6","7","8","9"}
IsDigits(s) == s # <<>> /\ \A i \in 1..Len(s) : s[i] \in Digits

\* the number a str of digits spells
RECURSIVE DigitsValue(_)
DigitsValue(s) ==
    IF s = <<>> THEN 0 ELSE 10 * DigitsValue(SubSeq(s, 1, Len(s) - 1)) + (Ord(s[Len(s)]) - Ord("0"))

\* s without a leading "-"
Unsigned(s) == IF s # <<>> /\ Head(s) = "-" THEN Tail(s) ELSE s

Sign(s) == IF s # <<>> /\ Head(s) = "-" THEN -1 ELSE 1

\* the digits of a fraction, as thousandths
FracValue(s) ==
    CASE Len(s) = 1 -> 100 * DigitsValue(s)
      [] Len(s) = 2 -> 10 * DigitsValue(s)
      [] OTHER -> DigitsValue(s)

\* float(s) of a str: here a decimal literal [-]digits[.digits] with at most
\* three decimals; any other text is a ValueError
FloatOfStr(s) ==
    LET parts == Split(Unsigned(s), ".")
    IN  IF Len(parts) = 1 /\ IsDigits(parts[1])
        THEN Return(PyFloat(Sign(s) * 1000 * DigitsValue(parts[1])))
        ELSE IF Len(parts) = 2 /\ IsDigits(parts[1]) /\ IsDigits(parts[2]) /\ Len(parts[2]) <= 3
        THEN Return(PyFloat(Sign(s) * (1000 * DigitsValue(parts[1]) + FracValue(parts[2]))))
        ELSE Raise("ValueError")

\* int(s) of a str: [-]digits, any other text (a decimal point too) is a
\* ValueError
IntOfStr(s) ==
    IF IsDigits(Unsigned(s)) THEN Return(PyInt(Sign(s) * DigitsValue(Unsigned(s))))
    ELSE Raise("ValueError")

\* thousandths cut toward zero to a whole number
Trunc(m) == IF m >= 0 THEN m \div 1000 ELSE -((-m) \div 1000)

\* float(value)
float_(x) ==
    CASE x.t = "float" -> Return(x)
      [] x.t = "inf" -> Return(x)
      [] x.t = "int" -> Return(PyFloat(1000 * x.v))
      [] x.t = "bool" -> Return(PyFloat(IF x.v THEN 1000 ELSE 0))
      [] x.t = "bigint" -> Raise("OverflowError")
      [] x.t = "str" -> FloatOfStr(x.v)
      [] OTHER -> Raise("TypeError")

\* int(value)
int_(x) ==
    CASE x.t = "int" -> Return(x)
      [] x.t = "bigint" -> Return(x)
      [] x.t = "bool" -> Return(PyInt(IF x.v THEN 1 ELSE 0))
      [] x.t = "float" -> Return(PyInt(Trunc(x.v)))
      [] x.t = "inf" -> Raise("OverflowError")
      [] x.t = "str" -> IntOfStr(x.v)
      [] OTHER -> Raise("TypeError")

\* bool(value)
Truthy(x) ==
    CASE x.t = "none" -> FALSE
      [] x.t = "bool" -> x.v
      [] x.t \in {"int", "float"} -> x.v # 0
      [] x.t \in {"str", "list"} -> x.v # <<>>
      [] x.t = "dict" -> DOMAIN x.v # {}
      [] OTHER -> TRUE

\* value == n for an int n
EqInt(x, n) ==
    \/ x.t = "int" /\ x.v = n
    \/ x.t = "float" /\ x.v = 1000 * n
    \/ x.t = "bool" /\ n \in {0, 1} /\ x.v = (n = 1)

\* value == s for a str s
EqStr(x, s) == x.t = "str" /\ x.v = s

\* x / n
TrueDiv(x, n) == IF x.t = "inf" THEN x ELSE PyFloat((IF x.t = "int" THEN 1000 * x.v ELSE x.v) \div n)

\* ------------------------------------------------------ openhab_solplanet
success_text == <<"s","u","c","c","e","s","s">>
Unknown == <<"U","n","k","n","o","w","n">>
unknown == <<"u","n","k","n","o","w","n">>
Normal == <<"N","o","r","m","a","l">>
Offline == <<"O","f","f","l","i","n","e">>
\* datetime.now().isoformat(): one fixed instant
now_text == <<"2","0","2","4","-","0","1","-","0","2","T","0","3",":","0","4",":","0","5">>

\* a mutation: only the status field is looked at
is_api_success_status_only(response) ==
    IF response.t # "dict" THEN Raise("AttributeError")
    ELSE Return(PyBool(EqInt(DictGet(response, "status", PyNone), HTTP_OK)))

\* a mutation: the info field is not looked at
is_api_success_no_info(response) ==
    IF response.t # "dict" THEN Raise("AttributeError")
    ELSE Return(PyBool(EqInt(DictGet(response, "status", PyNone), HTTP_OK) /\ "data" \in DOMAIN response.v))

\* is_api_success(response); response.get raises AttributeError on a value
\* that is no dict
is_api_success(response) ==
    IF response.t # "dict" THEN Raise("AttributeError")
    ELSE Return(PyBool(/\ EqInt(DictGet(response, "status", PyNone), HTTP_OK)
                       /\ EqStr(DictGet(response, "info", PyNone), success_text)
                       /\ "data" \in DOMAIN response.v))

safe_float(value, default) ==
    IF value.t = "none" THEN Return(default)
    ELSE LET r == float_(value)
         IN  IF r.exc \in {"ValueError", "TypeError"} THEN Return(default) ELSE r

safe_int(value, default) ==
    IF value.t = "none" THEN Return(default)
    ELSE LET r == int_(value)
         IN  IF r.exc \in {"ValueError", "TypeError"} THEN Return(default) ELSE r

\* the raw numeric fields of a device record
NumericKeys == {"pac", "prc", "sac", "pf", "hto", "etd", "eto", "v1", "v2", "v3", "i1", "i2", "i3", "s1", "s2", "s3", "cf", "tu", "tv", "tw", "cb", "bv", "va1", "va2", "va3", "ia1", "ia2", "ia3", "fac", "er", "wn0", "bat0", "bat1", "bat2", "bat3", "bat4", "bat5", "bat6", "bat7", "bat8", "bat9", "bat10", "bat11", "bat12", "bat13", "bat14", "bat15", "bat16", "bat17", "bat18", "meterPow", "meterIed", "meterOed", "meterIet", "meterOet", "powerRatio", "csq"}

\* the fields the code divides by 10 and by 100; the others are not divided
Tenths == {"etd", "eto", "v1", "v2", "v3", "s1", "s2", "s3", "cf", "tu", "tv", "tw", "cb", "bv", "va1", "va2", "va3", "ia1", "ia2", "ia3", "bat1", "bat2", "bat7", "bat9", "bat12", "bat13", "bat15", "bat16", "bat17", "bat18"}
Hundredths == {"pf", "i1", "i2", "i3", "fac", "bat6"}

\* the keys of the record extract_live_data builds
NormalizedKeys == {"power", "device_name", "timestamp", "status"} \cup NumericKeys

\* the value the record gives a numeric key, from the coerced raw value
Scaled(k, x) ==
    CASE k \in Tenths -> TrueDiv(x, 10)
      [] k \in Hundredths -> TrueDiv(x, 100)
      [] OTHER -> x

\* a mutation: watts are not converted to kilowatts
power_kw_unscaled(pac) == pac

\* power_kw of line 53
power_kw(pac) == IF Truthy(pac) THEN TrueDiv(pac, W_PER_KW) ELSE PyInt(0)

\* the status of line 60, from safe_int(device.get('currentState'))
status_of(state) == IF EqInt(state, 1) THEN PyStr(Normal) ELSE PyStr(Offline)

\* lines 52-140: the record of a device; device.get raises AttributeError on
\* a value that is no dict, and the OverflowError of float() and int() is not
\* caught by safe_float and safe_int
Normalized(device) ==
    IF device.t # "dict" THEN Raise("AttributeError")
    ELSE LET raw == [k \in NumericKeys |-> safe_float(DictGet(device, k, PyInt(0)), PyInt(0))]
             state == safe_int(DictGet(device, "currentState", PyNone), PyInt(0))
         IN  IF \E k \in NumericKeys : raw[k].exc # "" THEN Raise("OverflowError")
             ELSE IF state.exc # "" THEN Raise(state.exc)
             ELSE Return(PyDict([k \in NormalizedKeys |->
                    CASE k = "power" -> power_kw(raw["pac"].val)
                      [] k = "device_name" -> DictGet(device, "sn", PyStr(Unknown))
                      [] k = "timestamp" -> DictGet(device, "tim", PyStr(<<>>))
                      [] k = "status" -> status_of(state.val)
                      [] OTHER -> Scaled(k, raw[k].val)]))

\* a mutation: the last device of the list is used
last_device(devices) == IF devices.t = "list" THEN devices.v[Len(devices.v)] ELSE devices

\* line 36: the device record of a truthy 'data'
first_device(devices) == IF devices.t = "list" THEN devices.v[1] ELSE devices

extract_live_data(api_response) ==
    LET ok == is_api_success(api_response)
    IN  IF ok.exc # "" THEN ok
        ELSE IF ~ok.val.v THEN Return(EmptyDict)
        ELSE LET devices == DictGet(api_response, "data", PyList(<<>>))
             IN  IF ~Truthy(devices) THEN Return(EmptyDict)
                 ELSE Normalized(first_device(devices))

\* lines 154-209: the default output of main
Template ==
    [k \in {"timestamp", "success"} \cup NormalizedKeys |->
        CASE k = "timestamp" -> PyStr(now_text)
          [] k = "success" -> PyBool(FALSE)
          [] k = "device_name" -> PyStr(Unknown)
          [] k = "status" -> PyStr(unknown)
          [] OTHER -> PyInt(0)]

\* lines 223-231: what main prints for an exception; str(e) is kept as the
\* one-element text that names the exception
error_data(e) ==
    [k \in {"error", "timestamp", "success", "power", "etoday", "etotal", "status"} |->
        CASE k = "error" -> PyStr(<<e>>)
          [] k = "timestamp" -> PyStr(now_text)
          [] k = "success" -> PyBool(FALSE)
          [] k = "status" -> PyStr(<<"e","r","r","o","r">>)
          [] OTHER -> PyInt(0)]

\* a mutation: a key the dict already has keeps its value
UpdateKeepsOld(d, other) == [k \in DOMAIN d \cup DOMAIN other |-> IF k \in DOMAIN d THEN d[k] ELSE other[k]]

\* d.update(other) for the mappings of two dicts
Update(d, other) == [k \in DOMAIN d \cup DOMAIN other |-> IF k \in DOMAIN other THEN other[k] ELSE d[k]]

\* --------------------------------------------- _make_request: the outcomes
\* a body response.json() cannot parse
JsonInvalid == [t |-> "invalid", v |-> 0]

\* the exceptions of requests that are RequestException or derive from it
RequestExceptions == {"RequestException", "ConnectionError", "Timeout", "TooManyRedirects"}

\* a mutation: only timeouts are caught
CatchesTimeoutOnly(e) == e = "Timeout"

\* line 103: except requests.exceptions.RequestException
Catches(e) == e \in RequestExceptions

\* line 105
TransportErrorRecord(msg) == PyDict([k \in {"error"} |-> PyStr(msg)])

\* line 96
ParseErrorRecord(status_code) ==
    PyDict([k \in {"error", "status"} |->
        IF k = "error"
        THEN PyStr(<<"F","a","i","l","e","d"," ","t","o"," ","p","a","r","s","e"," ","J","S","O","N"," ","r","e","s","p","o","n","s","e">>)
        ELSE PyInt(status_code)])

\* a mutation: the record does not carry the response's status
HttpErrorRecordFixedStatus(status_code, text, hdrs) ==
    PyDict([k \in {"error", "status", "headers"} |->
        CASE k = "error" -> PyStr(text) [] k = "status" -> PyInt(500) [] OTHER -> hdrs])

\* line 101
HttpErrorRecord(status_code, text, hdrs) ==
    PyDict([k \in {"error", "status", "headers"} |->
        CASE k = "error" -> PyStr(text) [] k = "status" -> PyInt(status_code) [] OTHER -> hdrs])

\* lines 92-105: what _make_request does with the outcome h of requests.get:
\* the value it returns (ret), the exception that leaves it (exc) and the
\* lines it prints
Outcome(h) ==
    IF h.exc # ""
    THEN IF Catches(h.exc)
         THEN [exc |-> "", ret |-> TransportErrorRecord(h.msg),
               prints |-> <<[kind |-> "text", v |-> <<"Request failed", h.msg>>]>>]
         ELSE [exc |-> h.exc, ret |-> PyNone, prints |-> <<>>]
    ELSE IF h.status_code = HTTP_OK
    THEN [exc |-> "",
          ret |-> IF h.json.t # "invalid" THEN h.json ELSE ParseErrorRecord(h.status_code),
          prints |-> <<>>]
    ELSE [exc |-> "", ret |-> HttpErrorRecord(h.status_code, h.text, h.headers),
          prints |-> << [kind |-> "text", v |-> <<"Error", h.status_code>>],
                        [kind |-> "text", v |-> <<"Headers", h.headers>>],
                        [kind |-> "text", v |-> <<"Response", h.text>>] >>]

\* ------------------------------------------------------------- the inputs
\* the catalog's endpoint of getLastTsDataPro, and of getPlantOutputPro on
\* one date
getLastTsDataPro == <<"/","p","r","o","/","g","e","t","L","a","s","t","T","s","D","a","t","a","P","r","o">>
getPlantOutputPro == <<"/","p","r","o","/","g","e","t","P","l","a","n","t","O","u","t","p","u","t","P","r","o","?","p","e","r","i","o","d","=","b","y","d","a","y","s","&","d","a","t","e","=","2","0","2","4","-","0","1","-","0","2">>

\* other endpoints: a path, alone or with up to MaxParams components
Components == { <<"b","=","2">>, <<"a","=","1">>, <<"a","=","1","0">>, <<"c","=","?","x">> }
Queries == UNION { [1..n -> Components] : n \in 1..MaxParams }
Endpoints ==
    {getLastTsDataPro, getPlantOutputPro, <<"/","p">>}
        \cup { <<"/","p","?">> \o Join(q, "&") : q \in Queries }

\* the credentials a client is built with
Credentials ==
    [app_key : {<<"K">>}, app_secret : {<<"S">>},
     api_key : {<<"k">>, <<"k","?","z">>, <<"k","&","y","=","1">>},
     token : {<<"t">>}, sn : {<<"s","1">>}]

\* a key that a dict does not have
Absent == [t |-> "absent", v |-> 0]
\* the dict of the fields of f that are present
Obj(f) == PyDict([k \in {k \in DOMAIN f : f[k].t # "absent"} |-> f[k]])

Dev(pac, cs, sn, tim, etd, pf) ==
    Obj([k \in {"pac", "currentState", "sn", "tim", "etd", "pf"} |->
        CASE k = "pac" -> pac [] k = "currentState" -> cs [] k = "sn" -> sn
          [] k = "tim" -> tim [] k = "etd" -> etd [] OTHER -> pf])

PacValues ==
    {Absent, PyNone, PyStr(<<"1","5","0","0">>), PyInt(1500), PyStr(<<"N","/","A">>), PyInt(0),
     PyStr(<<"-","2","0">>), PyBigInt, PyList(<<>>)}
StateValues ==
    {Absent, PyNone, PyInt(1), PyStr(<<"1">>), PyStr(<<"1",".","0">>), PyInt(0), PyInt(2),
     PyFloat(1900), PyInf, PyBool(TRUE)}
X1 == PyStr(<<"X","1">>)
Tim == PyStr(<<"2","0","2","4","-","0","1","-","0","1"," ","1","2",":","0","0">>)

Devices ==
    { Dev(pac, cs, X1, Absent, Absent, Absent) : pac \in PacValues, cs \in StateValues }
        \cup { Dev(PyStr(<<"1","5","0","0">>), PyStr(<<"1">>), sn, tim, etd, pf) :
                 sn \in {Absent, X1, PyNone}, tim \in {Absent, Tim},
                 etd \in {Absent, PyInt(125)}, pf \in {Absent, PyStr(<<"9","5">>), PyBigInt} }

\* what follows the first element of a 'data' list
OtherDevices == { Dev(PyInt(7), PyInt(0), PyStr(<<"X","2">>), Absent, Absent, Absent), PyInt(3) }
Tails == UNION { [1..n -> OtherDevices] : n \in 0..(MaxDevices - 1) }

DataValues ==
    {Absent, PyNone, PyList(<<>>), EmptyDict, PyStr(<<"x">>), PyStr(<<>>), PyInt(5), PyInt(0),
     PyBool(FALSE), PyList(<<PyInt(1)>>), PyList(<<PyNone>>)}
        \cup Devices
        \cup { PyList(<<d>> \o tl) : d \in Devices, tl \in Tails }

Envelope(status, info, data) ==
    Obj([k \in {"status", "info", "data"} |->
        CASE k = "status" -> status [] k = "info" -> info [] OTHER -> data])

Dev0 == Dev(PyStr(<<"1","5","0","0">>), PyStr(<<"1">>), X1, Absent, Absent, Absent)

\* the values response.json() can give
JsonBodies ==
    { Envelope(st, PyStr(success_text), d) : st \in {PyInt(HTTP_OK), PyFloat(1000 * HTTP_OK)}, d \in DataValues }
        \cup { Envelope(st, info, d) :
                 st \in {Absent, PyNone, PyInt(HTTP_OK), PyInt(500), PyStr(<<"2","0","0">>), PyBool(TRUE)},
                 info \in {Absent, PyNone, PyStr(success_text), PyStr(<<"f","a","i","l">>)},
                 d \in {Absent, PyList(<<>>), PyList(<<Dev0>>), Dev0} }
        \cup { PyList(<<>>), PyNone, PyInt(5), PyStr(<<"o","k">>) }

\* the response headers and bodies of the responses that are not 200
HeaderValues ==
    { EmptyDict,
      PyDict([k \in {"X-Ca-Error-Message"} |-> PyStr(<<"I","n","v","a","l","i","d"," ","S","i","g","n","a","t","u","r","e">>)]) }
Texts == { <<>>, <<"F","o","r","b","i","d","d","e","n">> }

\* the outcomes of requests.get: an exception, or a response
Raised(e, msg) == [exc |-> e, msg |-> msg, status_code |-> 0, text |-> <<>>, headers |-> EmptyDict, json |-> JsonInvalid]
Response(status_code, text, hdrs, json) == [exc |-> "", msg |-> <<>>, status_code |-> status_code, text |-> text, headers |-> hdrs, json |-> json]

HttpOutcomes(bodies) ==
    { Raised("ConnectionError", <<"N","a","m","e"," ","o","r"," ","s","e","r","v","i","c","e"," ","n","o","t"," ","k","n","o","w","n">>),
      Raised("Timeout", <<"t","i","m","e","d"," ","o","u","t">>) }
        \cup { Response(sc, tx, hd, JsonInvalid) : sc \in {403, 500}, tx \in Texts, hd \in HeaderValues }
        \cup { Response(HTTP_OK, <<"<","h","t","m","l",">">>, EmptyDict, JsonInvalid) }
        \cup { Response(HTTP_OK, <<>>, EmptyDict, j) : j \in bodies }

\* the values extract_live_data is applied to: what _make_request can return
ApiResponses ==
    JsonBodies
        \cup { Outcome(h).ret : h \in HttpOutcomes({}) }

\* --------------------------------------------------------------- the state
VARIABLES
    caller,          \* who runs: "api" (a method of the client), "main" (the
                     \* script), "normalize" (extract_live_data applied to a value)
    self,            \* the client's credentials
    endpoint_arg,    \* the endpoint _make_request is called with
    endpoint,        \* its local variable endpoint after line 63
    headers,         \* the request's headers, X-Ca-Signature included
    string_to_sign,  \* line 75
    url,             \* line 87
    http,            \* the outcome of requests.get
    nRequests,       \* the calls of requests.get so far
    ret,             \* the value _make_request returned
    escaped,         \* the exception that left _make_request, "" if none
    api_response,    \* the argument of extract_live_data
    result,          \* what extract_live_data did: a value or an exception
    stdout,          \* what has been printed, in order
    exit_code,       \* the exit code of the process
    pc

vars == <<caller, self, endpoint_arg, endpoint, headers, string_to_sign, url, http, nRequests,
          ret, escaped, api_response, result, stdout, exit_code, pc>>

Unset == [t |-> "unset", v |-> 0]
NoOutcome == Raised("", <<>>)

Init ==
    /\ caller \in {"api", "main", "normalize"}
    /\ self \in Credentials
    /\ endpoint_arg \in (IF caller = "api" THEN Endpoints ELSE {<<>>})
    /\ api_response \in (IF caller = "normalize" THEN ApiResponses ELSE {Unset})
    /\ caller = "normalize" => self.api_key = <<"k">>
    /\ endpoint = <<>>
    /\ headers = <<>>
    /\ string_to_sign = <<>>
    /\ url = <<>>
    /\ http = NoOutcome
    /\ nRequests = 0
    /\ ret = Unset
    /\ escaped = ""
    /\ result = Return(Unset)
    /\ stdout = <<>>
    /\ exit_code = 0
    /\ pc = "start"

\* one of the client's methods calls _make_request with its endpoint
ApiMethod ==
    /\ caller = "api" /\ pc = "start"
    /\ pc' = "call"
    /\ UNCHANGED <<caller, self, endpoint_arg, endpoint, headers, string_to_sign, url, http,
                   nRequests, ret, escaped, api_response, result, stdout, exit_code>>

\* lines 13-18 of the script: the import fails
ImportFails ==
    /\ caller = "main" /\ pc = "start"
    /\ stdout' = Append(stdout, [kind |-> "json",
                                 v |-> PyDict([k \in {"error", "timestamp"} |->
                                          IF k = "error" THEN PyStr(<<"ImportError">>) ELSE PyStr(now_text)])])
    /\ exit_code' = EXIT_FAILURE
    /\ pc' = "done"
    /\ UNCHANGED <<caller, self, endpoint_arg, endpoint, headers, string_to_sign, url, http,
                   nRequests, ret, escaped, api_response, result>>

\* main, lines 143-212: the client is built and getLastTsDataPro called
MainStart ==
    /\ caller = "main" /\ pc = "start"
    /\ endpoint_arg' = getLastTsDataPro
    /\ pc' = "call"
    /\ UNCHANGED <<caller, self, endpoint, headers, string_to_sign, url, http, nRequests, ret,
                   escaped, api_response, result, stdout, exit_code>>

\* _make_request, lines 50-87: the request is built and signed
MakeRequestBuild ==
    /\ pc = "call"
    /\ LET ep == CanonicalEndpoint(endpoint_arg, self.api_key, self.token, self.sn)
           sts == StringToSign(self.app_key, ep)
       IN  /\ endpoint' = ep
           /\ string_to_sign' = sts
           /\ headers' = [n \in DOMAIN Headers(self.app_key) \cup {"X-Ca-Signature"} |->
                            IF n = "X-Ca-Signature" THEN Signature(self.app_secret, sts)
                            ELSE Headers(self.app_key)[n]]
           /\ url' = Url(ep)
    /\ pc' = "get"
    /\ UNCHANGED <<caller, self, endpoint_arg, http, nRequests, ret, escaped, api_response,
                   result, stdout, exit_code>>

\* line 90: requests.get; the network and the server decide the outcome
RequestsGet ==
    /\ pc = "get"
    /\ http' \in HttpOutcomes(IF caller = "main" THEN JsonBodies ELSE {Envelope(PyInt(HTTP_OK), PyStr(success_text), PyList(<<Dev0>>)), PyList(<<>>)})
    /\ nRequests' = nRequests + 1
    /\ pc' = "got"
    /\ UNCHANGED <<caller, self, endpoint_arg, endpoint, headers, string_to_sign, url, ret,
                   escaped, api_response, result, stdout, exit_code>>

\* lines 92-105: the outcome becomes the returned value
MakeRequestReturn ==
    /\ pc = "got"
    /\ LET o == Outcome(http)
       IN  /\ ret' = IF o.exc = "" THEN o.ret ELSE ret
           /\ escaped' = o.exc
           /\ stdout' = stdout \o o.prints
    /\ pc' = "returned"
    /\ UNCHANGED <<caller, self, endpoint_arg, endpoint, headers, string_to_sign, url, http,
                   nRequests, api_response, result, exit_code>>

\* main, lines 214-233, from the value of live_response (or the exception
\* that left getLastTsDataPro): the object printed and the exit code
MainOutput(exc, live_response) ==
    IF exc # "" THEN [exit |-> EXIT_FAILURE, out |-> PyDict(error_data(exc))]
    ELSE LET ok == is_api_success(live_response)
         IN  IF ok.exc # "" THEN [exit |-> EXIT_FAILURE, out |-> PyDict(error_data(ok.exc))]
             ELSE IF ~ok.val.v THEN [exit |-> 0, out |-> PyDict(Template)]
             ELSE LET live_data == extract_live_data(live_response)
                  IN  IF live_data.exc # ""
                      THEN [exit |-> EXIT_FAILURE, out |-> PyDict(error_data(live_data.exc))]
                      ELSE [exit |-> 0,
                            out |-> PyDict([Update(Template, live_data.val.v) EXCEPT !["success"] = PyBool(TRUE)])]

MainFinish ==
    /\ caller = "main" /\ pc = "returned"
    /\ LET m == MainOutput(escaped, ret)
       IN  /\ stdout' = Append(stdout, [kind |-> "json", v |-> m.out])
           /\ exit_code' = m.exit
    /\ pc' = "done"
    /\ UNCHANGED <<caller, self, endpoint_arg, endpoint, headers, string_to_sign, url, http,
                   nRequests, ret, escaped, api_response, result>>

\* extract_live_data applied to a value
Normalize ==
    /\ caller = "normalize" /\ pc = "start"
    /\ result' = extract_live_data(api_response)
    /\ pc' = "done"
    /\ UNCHANGED <<caller, self, endpoint_arg, endpoint, headers, string_to_sign, url, http,
                   nRequests, ret, escaped, api_response, stdout, exit_code>>

Next ==
    \/ ApiMethod
    \/ ImportFails
    \/ MainStart
    \/ MakeRequestBuild
    \/ RequestsGet
    \/ MakeRequestReturn
    \/ MainFinish
    \/ Normalize

Spec == Init /\ [][Next]_vars

\* =============================================================== the claims
\* _make_request has returned to its caller (or an exception has left it)
Returned == pc = "returned" \/ (pc = "done" /\ nRequests > 0)

\* what follows base_url in the URL of the request
SentEndpoint == SubSeq(url, Len(base_url) + 1, Len(url))
\* what follows the X-Ca-Key line in the signing string
SignedEndpoint == SubSeq(string_to_sign, Len(SigningPrefix(self.app_key)) + 1, Len(string_to_sign))

\* C1: once the request is built, the endpoint that follows base_url in the
\* URL is the same string as the endpoint that ends the signing string, and
\* X-Ca-Signature is the signature of that signing string
C1_SentEqualsSigned ==
    url # <<>> =>
        /\ SubSeq(url, 1, Len(base_url)) = base_url
        /\ SubSeq(string_to_sign, 1, Len(SigningPrefix(self.app_key))) = SigningPrefix(self.app_key)
        /\ SentEndpoint = SignedEndpoint
        /\ SentEndpoint = endpoint
        /\ headers["X-Ca-Signature"] = Signature(self.app_secret, string_to_sign)

\* C1 witness: a request is built for an endpoint that had a query string
\* which sorting reordered
C1_Witness ==
    /\ pc = "get"
    /\ Contains(endpoint_arg, "?")
    /\ endpoint # WithAuth(endpoint_arg, self.api_key, self.token, self.sn)
    /\ SentEndpoint = SignedEndpoint

\* the part of an endpoint before its first "?", and the components after it
PathOf(ep) == Split(ep, "?")[1]
QueryOf(ep) == SubSeq(ep, Len(PathOf(ep)) + 2, Len(ep))
ComponentsOf(ep) == IF Contains(ep, "?") THEN Split(QueryOf(ep), "&") ELSE <<>>

\* C2: the canonical query string is the endpoint's own components plus
\* apikey=<api_key>, token=<token> and isnos=<sn>, none lost and none added,
\* sorted as whole strings and joined with "&"
C2_CanonicalQuery ==
    url # <<>> =>
        endpoint = PathOf(endpoint_arg) \o <<"?">>
                     \o Join(Sorted(ComponentsOf(endpoint_arg)
                                      \o << <<"a","p","i","k","e","y","=">> \o self.api_key,
                                            <<"t","o","k","e","n","=">> \o self.token,
                                            <<"i","s","n","o","s","=">> \o self.sn >>), "&")

\* C3: when _make_request is over no exception has left it and it has
\* returned a value: an error record with the failure's description for a
\* transport failure, an error record for a response that is not 200, an
\* error record with the parse failure and the status for a 200 that is no
\* JSON, and the parsed value otherwise
C3_NeverRaises ==
    Returned =>
        /\ escaped = ""
        /\ ret.t # "unset"
        /\ http.exc # "" => ret.t = "dict" /\ DOMAIN ret.v = {"error"} /\ ret.v["error"] = PyStr(http.msg)
        /\ http.exc = "" /\ http.status_code # HTTP_OK => ret.t = "dict" /\ "error" \in DOMAIN ret.v
        /\ http.exc = "" /\ http.status_code = HTTP_OK /\ http.json.t = "invalid" =>
              /\ ret.t = "dict" /\ DOMAIN ret.v = {"error", "status"}
              /\ ret.v["error"].t = "str" /\ ret.v["error"].v # <<>>
              /\ ret.v["status"] = PyInt(http.status_code)
        /\ http.exc = "" /\ http.status_code = HTTP_OK /\ http.json.t # "invalid" => ret = http.json

\* C3 witness: a connection failure has been returned as an error record
C3_Witness ==
    /\ pc = "returned" /\ http.exc = "ConnectionError"
    /\ escaped = "" /\ ret.t = "dict" /\ "error" \in DOMAIN ret.v

\* C4: for a response whose status is not 200 the returned record has the
\* response's status, body and headers, and requests.get was called once
C4_HttpErrorRecord ==
    Returned /\ http.exc = "" /\ http.status_code # HTTP_OK =>
        /\ ret.t = "dict"
        /\ DOMAIN ret.v = {"error", "status", "headers"}
        /\ ret.v["status"] = PyInt(http.status_code)
        /\ ret.v["error"] = PyStr(http.text)
        /\ ret.v["headers"] = http.headers
        /\ nRequests = 1

\* C4 witness: a 403 with a body and headers has been returned
C4_Witness ==
    /\ pc = "returned" /\ http.exc = "" /\ http.status_code = 403
    /\ http.text # <<>> /\ DOMAIN http.headers.v # {}
    /\ ret.t = "dict" /\ "status" \in DOMAIN ret.v /\ nRequests = 1

\* extract_live_data has been applied to api_response
Normalized_Done == caller = "normalize" /\ pc = "done"

\* a float or int value in thousandths
Milli(x) == IF x.t = "int" THEN 1000 * x.v ELSE x.v

\* the definition of success: the status field equals 200, the info field
\* is "success" and there is a data field
SuccessFields(r) ==
    /\ r.t = "dict"
    /\ "status" \in DOMAIN r.v /\ EqInt(r.v["status"], 200)
    /\ "info" \in DOMAIN r.v /\ r.v["info"].t = "str" /\ r.v["info"].v = success_text
    /\ "data" \in DOMAIN r.v

IsEmptyMapping(res) == res.exc = "" /\ res.val.t = "dict" /\ DOMAIN res.val.v = {}
IsRecord(res) == res.exc = "" /\ res.val.t = "dict" /\ DOMAIN res.val.v = NormalizedKeys

\* a raw value that is no number: null, a text float() rejects, a list or a
\* mapping
NotNumeric(x) ==
    \/ x.t \in {"none", "list", "dict"}
    \/ x.t = "str" /\ FloatOfStr(x.v).exc # ""

\* C5: extract_live_data returns a mapping for every value it is given and
\* never raises, and a numeric field that is missing, null or not a number
\* is 0 in the record
C5_NormalizationTotal ==
    Normalized_Done =>
        /\ result.exc = ""
        /\ result.val.t = "dict"
        /\ DOMAIN result.val.v # {} =>
              LET data == api_response.v["data"]
                  device == IF data.t = "list" THEN data.v[1] ELSE data
              IN  \A k \in NumericKeys :
                      (k \notin DOMAIN device.v \/ NotNumeric(device.v[k])) => Milli(result.val.v[k]) = 0

\* C6: for a response (a mapping) that is not a success extract_live_data
\* returns the empty mapping, and so it does when data is the empty list
C6_EmptyUnlessSuccess ==
    Normalized_Done /\ api_response.t = "dict" =>
        /\ ~SuccessFields(api_response) => IsEmptyMapping(result)
        /\ ("data" \in DOMAIN api_response.v /\ api_response.v["data"] = PyList(<<>>)) => IsEmptyMapping(result)

\* C6 witness: a response with status 200, a device and an info that is
\* not "success" gave the empty mapping
C6_Witness ==
    /\ Normalized_Done /\ api_response.t = "dict"
    /\ DOMAIN api_response.v = {"status", "info", "data"}
    /\ EqInt(api_response.v["status"], 200)
    /\ api_response.v["info"] = PyStr(<<"f","a","i","l">>)
    /\ api_response.v["data"] = PyList(<<Dev0>>)
    /\ IsEmptyMapping(result)

\* the data of a successful response, and the device record chosen from it
DataOf(r) == r.v["data"]
ChosenDevice(r) == IF DataOf(r).t = "list" THEN DataOf(r).v[1] ELSE DataOf(r)

\* float() and int() can convert the fields of a device without overflow
Convertible(device) ==
    /\ \A k \in NumericKeys : DictGet(device, k, PyInt(0)).t # "bigint"
    /\ DictGet(device, "currentState", PyNone).t # "inf"

\* the record was made from this device: it has the device's name and its
\* coerced active power
MadeFrom(res, device) ==
    /\ IsRecord(res)
    /\ res.val.v["device_name"] = DictGet(device, "sn", PyStr(Unknown))
    /\ Milli(res.val.v["pac"]) = Milli(safe_float(DictGet(device, "pac", PyInt(0)), PyInt(0)).val)

\* C7 as claimed: for a successful response, an empty list gives the empty
\* mapping, a list gives the record of its first element, and every data
\* that is not a list, an empty record too, gives the record made from data
C7_Original ==
    Normalized_Done /\ SuccessFields(api_response) =>
        IF DataOf(api_response).t = "list"
        THEN IF DataOf(api_response).v = <<>> THEN IsEmptyMapping(result)
             ELSE ChosenDevice(api_response).t = "dict" /\ Convertible(ChosenDevice(api_response))
                      => MadeFrom(result, ChosenDevice(api_response))
        ELSE MadeFrom(result, DataOf(api_response))

\* C7 as amended: for a successful response, a data that is falsy (the
\* empty list, the empty record, null, false, 0, the empty string) gives the
\* empty mapping; otherwise the device is the first element of a list and
\* data itself when it is no list, and the record is made from the device
\* when it is a mapping whose fields float() and int() convert without
\* overflow, and the call raises when it is not
C7_DeviceSelection ==
    Normalized_Done /\ SuccessFields(api_response) =>
        IF ~Truthy(DataOf(api_response)) THEN IsEmptyMapping(result)
        ELSE IF ChosenDevice(api_response).t = "dict" /\ Convertible(ChosenDevice(api_response))
        THEN MadeFrom(result, ChosenDevice(api_response))
        ELSE result.exc # ""

\* C7 witness: a successful response whose data is the empty record gave the
\* empty mapping
C7_Witness ==
    /\ Normalized_Done /\ SuccessFields(api_response)
    /\ DataOf(api_response) = EmptyDict
    /\ IsEmptyMapping(result)

\* C8: in the record of a successful response, status is Normal exactly
\* when currentState coerces to the integer 1 and Offline otherwise, power
\* is the coerced pac over 1000, device_name is sn, or Unknown without sn,
\* and a numeric field the device does not have is 0
C8_DerivedFields ==
    Normalized_Done /\ SuccessFields(api_response) /\ IsRecord(result) =>
        LET device == ChosenDevice(api_response)
            rec == result.val.v
            state == safe_int(DictGet(device, "currentState", PyNone), PyInt(0)).val
            pac == safe_float(DictGet(device, "pac", PyInt(0)), PyInt(0)).val
        IN  /\ rec["status"] = (IF state.t = "int" /\ state.v = 1 THEN PyStr(Normal) ELSE PyStr(Offline))
            /\ Milli(rec["pac"]) = Milli(pac)
            /\ 1000 * Milli(rec["power"]) = Milli(pac)
            /\ rec["device_name"] = (IF "sn" \in DOMAIN device.v THEN device.v["sn"] ELSE PyStr(Unknown))
            /\ \A k \in NumericKeys : k \notin DOMAIN device.v => Milli(rec[k]) = 0
            /\ "pac" \notin DOMAIN device.v => Milli(rec["power"]) = 0

\* C8 witness: data [{"pac": "1500", "sn": "X1", "currentState": "1"}] gave
\* power 1.5, device_name X1, status Normal and etd 0
C8_Witness ==
    /\ Normalized_Done /\ SuccessFields(api_response)
    /\ DataOf(api_response) = PyList(<<Dev0>>)
    /\ IsRecord(result)
    /\ result.val.v["power"] = PyFloat(1500)
    /\ result.val.v["device_name"] = X1
    /\ result.val.v["status"] = PyStr(Normal)
    /\ Milli(result.val.v["etd"]) = 0

\* main is over after its call of the API
MainDone == caller = "main" /\ pc = "done" /\ nRequests > 0
\* the JSON objects on standard output
Emitted == SelectSeq(stdout, LAMBDA line : line.kind = "json")

\* C9: the object main emits has exactly the keys of the template, whatever
\* the API call gave
C9_TemplateKeys ==
    MainDone =>
        /\ Len(Emitted) = 1
        /\ DOMAIN Emitted[1].v.v = DOMAIN Template
        /\ NormalizedKeys \subseteq DOMAIN Template

\* C10: when the script is over, standard output holds one JSON object and
\* nothing else, and the exit code is 0 unless the object is an error
\* payload
C10_OneJsonObject ==
    caller = "main" /\ pc = "done" =>
        /\ Len(stdout) = 1
        /\ stdout[1].kind = "json"
        /\ (exit_code # 0) <=> ("error" \in DOMAIN stdout[1].v.v)

\* the API call failed: a transport failure, a response that is not 200, or
\* a 200 whose body is no JSON
ApiCallFailed ==
    nRequests > 0 /\ (http.exc # "" \/ http.status_code # HTTP_OK \/ http.json.t = "invalid")

\* C11: the error record _make_request returns for a failed call is not a
\* success for is_api_success, and main then emits the template as it is:
\* success false and every telemetry field at its default
C11_ErrorsNeverSuccess ==
    /\ Returned /\ ApiCallFailed =>
          /\ ret.t = "dict" /\ "error" \in DOMAIN ret.v
          /\ is_api_success(ret) = Return(PyBool(FALSE))
    /\ MainDone /\ ApiCallFailed =>
          /\ Len(Emitted) = 1
          /\ Emitted[1].v.t = "dict"
          /\ DOMAIN Emitted[1].v.v = DOMAIN Template
          /\ \A k \in DOMAIN Template : Emitted[1].v.v[k] = Template[k]
          /\ Emitted[1].v.v["success"] = PyBool(FALSE)

\* C11 witness: a 200 with a body that is no JSON gave a record with status
\* 200, and main emitted success false
C11_Witness ==
    /\ MainDone /\ http.exc = "" /\ http.status_code = HTTP_OK /\ http.json.t = "invalid"
    /\ ret.t = "dict" /\ DOMAIN ret.v = {"error", "status"} /\ ret.v["status"] = PyInt(200)
    /\ Len(Emitted) = 1 /\ Emitted[1].v.v["success"] = PyBool(FALSE)
    /\ Emitted[1].v.v["status"] = PyStr(unknown)

\* main has emitted an object whose success is true
EmittedSuccess ==
    /\ MainDone /\ Len(Emitted) = 1
    /\ "success" \in DOMAIN Emitted[1].v.v
    /\ Emitted[1].v.v["success"] = PyBool(TRUE)

\* C12 as claimed: an emitted object with success true carries the values
\* of a device record: its status is Normal or Offline and its timestamp is
\* the tim of the device
C12_Original ==
    EmittedSuccess =>
        /\ Emitted[1].v.v["status"] \in {PyStr(Normal), PyStr(Offline)}
        /\ Truthy(DataOf(ret))
        /\ Emitted[1].v.v["timestamp"] = DictGet(ChosenDevice(ret), "tim", PyStr(<<>>))

\* C12 as amended: an emitted object with success true comes from a response
\* that is a success; when its data is truthy the status is Normal or
\* Offline and the timestamp is the tim of the chosen device ('' without
\* one); when its data is falsy (the empty list, the empty record, null,
\* false, 0, the empty string) the object is the template with success set:
\* status unknown, timestamp the time of the run, every other field at its
\* default
C12_SuccessValues ==
    EmittedSuccess =>
        /\ SuccessFields(ret)
        /\ exit_code = 0
        /\ IF Truthy(DataOf(ret))
           THEN /\ ChosenDevice(ret).t = "dict"
                /\ Emitted[1].v.v["status"] \in {PyStr(Normal), PyStr(Offline)}
                /\ Emitted[1].v.v["timestamp"] = DictGet(ChosenDevice(ret), "tim", PyStr(<<>>))
           ELSE /\ Emitted[1].v.v["status"] = PyStr(unknown)
                /\ Emitted[1].v.v["timestamp"] = PyStr(now_text)
                /\ \A k \in DOMAIN Template \ {"success"} : Emitted[1].v.v[k] = Template[k]

\* C12 witness: a successful response whose data is the empty list was
\* emitted with success true and the status unknown
C12_Witness ==
    /\ EmittedSuccess
    /\ DataOf(ret) = PyList(<<>>)
    /\ Emitted[1].v.v["status"] = PyStr(unknown)

\* a device's values were emitted: status Normal and the device's tim
C12_WitnessDevice ==
    /\ EmittedSuccess
    /\ Truthy(DataOf(ret))
    /\ "tim" \in DOMAIN ChosenDevice(ret).v
    /\ Emitted[1].v.v["timestamp"] = Tim
    /\ Emitted[1].v.v["status"] = PyStr(Normal)

====
